---- MODULE Spec2Model ----
(***************************************************************************)
(* Model of the growable wire field of "Day 3 - Part 2" (src/main.rs):     *)
(* struct Field, the CanGrow trait (grow, grow_horizontally,               *)
(* grow_vertically) and the HandleLines trait (add_line,                   *)
(* calculate_intersections,                                                *)
(* calculate_minimum_steps_to_reach_any_intersection).                     *)
(*                                                                         *)
(* cells is the VecDeque<VecDeque<u8>>: a sequence of columns, each a      *)
(* sequence of u8.  The Rust index cells[x][y] (0-based) is cells[x+1][y+1]*)
(* here.  A Cell is the record [x |-> .., y |-> ..] of 0-based indices.    *)
(***************************************************************************)
EXTENDS Integers, Sequences, FiniteSets, TLC

VARIABLES cells, center, position_to_num_of_steps_list, status, args, history, last

vars == <<cells, center, position_to_num_of_steps_list, status, args, history, last>>

(***************************************************************************)
(* Bounds of the model.                                                    *)
(***************************************************************************)
MaxSize == 4
MaxDim == 210
MaxCells == 11000

(***************************************************************************)
(* Program constants.                                                      *)
(***************************************************************************)
MinimumBatch == 100
GrowFill == 0

(***************************************************************************)
(* Inputs.                                                                 *)
(***************************************************************************)
Sizes == {1, MaxSize}
FillValues == {0, 8}
CenterValues == {1}
Markers == {2, 4}
IntersectionMasks == {2, 6, 7}
StepMasks == {0, 6, 7}
Targets == {-106, -6, 1, MaxSize, 105}
BothTargets == {MaxSize + 1}

GrowLines ==
  { <<[direction |-> "Left", num_of_cells |-> 5]>>,
    <<[direction |-> "Up", num_of_cells |-> MaxSize],
      [direction |-> "Down", num_of_cells |-> MaxSize]>> }
GrowMarkers == {2}

Directions == {"Left", "Right", "Up", "Down"}

Step(d, n) == [direction |-> d, num_of_cells |-> n]

Lines ==
  { <<Step("Right", 3)>>,
    <<Step("Up", 1), Step("Right", 1), Step("Down", 1)>>,
    <<Step("Left", 5)>>,
    <<Step("Right", 1), Step("Left", 2), Step("Right", 2)>>,
    <<Step("Left", 2), Step("Right", 3), Step("Left", 1)>>,
    <<Step("Up", MaxSize), Step("Down", MaxSize)>> }

(***************************************************************************)
(* Helpers.                                                                *)
(***************************************************************************)
Abs(n) == IF n < 0 THEN -n ELSE n

Cell(cx, cy) == [x |-> cx, y |-> cy]

Width(cs) == Len(cs)

Height(cs) == Len(cs[1])

At(cs, c) == cs[c.x + 1][c.y + 1]

InGrid(cs, c) == c.x >= 0 /\ c.x < Width(cs) /\ c.y >= 0 /\ c.y < Height(cs)

RECURSIVE BitOr(_, _)
BitOr(a, b) ==
  IF a = 0 THEN b
  ELSE IF b = 0 THEN a
  ELSE (IF a % 2 = 1 \/ b % 2 = 1 THEN 1 ELSE 0) + 2 * BitOr(a \div 2, b \div 2)

Column(n, v) == [j \in 1..n |-> v]

(***************************************************************************)
(* Field::new                                                              *)
(***************************************************************************)
NewCells(size, fill_value, center_value) ==
  [i \in 1..size |-> [j \in 1..size |-> IF i = 1 /\ j = 1 THEN center_value ELSE fill_value]]

(***************************************************************************)
(* CanGrow for Field                                                       *)
(***************************************************************************)
\* Variant: the positive branch leaves the Origin out.
minimum_grow_size_without_center(is_positive_growth, new_size, center_c, len) ==
  IF is_positive_growth THEN Abs(new_size) - len
  ELSE Abs(new_size) - center_c

minimum_grow_size(is_positive_growth, new_size, center_c, len) ==
  IF is_positive_growth THEN Abs(new_size) + center_c - len
  ELSE Abs(new_size) - center_c

\* Variant: no minimum batch.
relative_grow_size_unbatched(m) == IF m <= 0 THEN 0 ELSE m

relative_grow_size(m) ==
  IF m <= 0 THEN 0
  ELSE IF m <= MinimumBatch THEN MinimumBatch
  ELSE m

\* The field is the pair [cells, center]; each grow operator returns the field
\* after the call.
grow_horizontally(f, new_horizontal_size) ==
  LET is_positive_growth == new_horizontal_size >= 0
      k == relative_grow_size(
             minimum_grow_size(is_positive_growth, new_horizontal_size, f.center.x, Len(f.cells)))
      current_vertical_size == Len(f.cells[1])
      added == [i \in 1..k |-> Column(current_vertical_size, GrowFill)]
  IN [cells  |-> IF is_positive_growth THEN f.cells \o added ELSE added \o f.cells,
      center |-> IF ~is_positive_growth THEN Cell(f.center.x + k, f.center.y) ELSE f.center]

grow_vertically(f, new_vertical_size) ==
  LET is_positive_growth == new_vertical_size >= 0
      k == relative_grow_size(
             minimum_grow_size(is_positive_growth, new_vertical_size, f.center.y, Len(f.cells[1])))
      current_vertical_size == Len(f.cells[1])
  IN [cells  |-> [i \in 1..Len(f.cells) |->
                    IF is_positive_growth
                    THEN f.cells[i] \o Column(k, GrowFill)
                    ELSE Column(k, GrowFill) \o f.cells[i]],
      center |-> IF ~is_positive_growth THEN Cell(f.center.x, f.center.y + k) ELSE f.center]

grow(f, new_horizontal_size, new_vertical_size) ==
  grow_vertically(grow_horizontally(f, new_horizontal_size), new_vertical_size)

(***************************************************************************)
(* HandleLines for Field: add_line                                         *)
(***************************************************************************)
EmptyMap == [c \in {} |-> 0]

NoResult == [outcome |-> "returned", intersections |-> <<>>, steps |-> 0]

Panicked == [outcome |-> "panicked", intersections |-> <<>>, steps |-> 0]

\* HashMap::entry(k).or_insert(v)
or_insert(map, k, v) == IF k \in DOMAIN map THEN map ELSE (k :> v) @@ map

\* Variant: the marker overwrites the cell instead of being OR-ed into it.
Mark_overwrite(v, marker) == marker

\* self.cells[c] |= marker
Mark(v, marker) == BitOr(v, marker)

SetAt(cs, c, v) == [cs EXCEPT ![c.x + 1][c.y + 1] = v]

get_cell(x, y, center_x, center_y) == Cell(center_x + x, center_y + y)

\* Variant: only the first registered line is compared.
marker_already_added_first_only(list, marker) ==
  Len(list) > 0 /\ list[1].marker = marker

marker_already_added(list, marker) ==
  \E i \in 1..Len(list) : list[i].marker = marker

\* The walk state: the field, the locals of add_line (x, y, position_to_num_of_steps,
\* taken_steps), out_of_bounds for an index panic, and two history maps that the
\* program does not keep: recorded_at (Cell key -> logical position it was inserted
\* for), first_reach (logical position -> taken_steps of the first pass) and
\* revisited (the logical positions passed more than once).
StartWalk(f) ==
  [cells |-> f.cells, center |-> f.center, x |-> 0, y |-> 0,
   position_to_num_of_steps |-> EmptyMap, taken_steps |-> 0, out_of_bounds |-> FALSE,
   recorded_at |-> EmptyMap, first_reach |-> EmptyMap, revisited |-> {}]

UnitStep(w, direction, marker) ==
  LET x == IF direction = "Left" THEN w.x - 1 ELSE IF direction = "Right" THEN w.x + 1 ELSE w.x
      y == IF direction = "Down" THEN w.y - 1 ELSE IF direction = "Up" THEN w.y + 1 ELSE w.y
      taken_steps == w.taken_steps + 1
      next_cell == get_cell(x, y, w.center.x, w.center.y)
  IN IF ~InGrid(w.cells, next_cell)
     THEN [w EXCEPT !.x = x, !.y = y, !.taken_steps = taken_steps, !.out_of_bounds = TRUE]
     ELSE [w EXCEPT !.x = x, !.y = y, !.taken_steps = taken_steps,
                    !.cells = SetAt(w.cells, next_cell, Mark(At(w.cells, next_cell), marker)),
                    !.position_to_num_of_steps = or_insert(@, next_cell, taken_steps),
                    !.recorded_at = or_insert(@, next_cell, <<x, y>>),
                    !.first_reach = or_insert(@, <<x, y>>, taken_steps),
                    !.revisited = IF <<x, y>> \in DOMAIN w.first_reach
                                  THEN @ \cup {<<x, y>>} ELSE @]

RECURSIVE WalkUnits(_, _, _, _)
WalkUnits(w, direction, n, marker) ==
  IF n = 0 \/ w.out_of_bounds THEN w
  ELSE WalkUnits(UnitStep(w, direction, marker), direction, n - 1, marker)

\* Variant: the grid is grown to the extreme coordinate of the run, without the
\* one cell of margin.
GrowForStep_without_margin(w, step) ==
  LET f == [cells |-> w.cells, center |-> w.center]
      g == IF step.direction = "Left" THEN grow_horizontally(f, w.x - step.num_of_cells)
           ELSE IF step.direction = "Right" THEN grow_horizontally(f, w.x + step.num_of_cells)
           ELSE IF step.direction = "Down" THEN grow_vertically(f, w.y - step.num_of_cells)
           ELSE grow_vertically(f, w.y + step.num_of_cells)
  IN [w EXCEPT !.cells = g.cells, !.center = g.center]

GrowForStep(w, step) ==
  LET f == [cells |-> w.cells, center |-> w.center]
      g == IF step.direction = "Left" THEN grow_horizontally(f, w.x - step.num_of_cells - 1)
           ELSE IF step.direction = "Right" THEN grow_horizontally(f, w.x + step.num_of_cells + 1)
           ELSE IF step.direction = "Down" THEN grow_vertically(f, w.y - step.num_of_cells - 1)
           ELSE grow_vertically(f, w.y + step.num_of_cells + 1)
  IN [w EXCEPT !.cells = g.cells, !.center = g.center]

RECURSIVE WalkLine(_, _, _, _)
WalkLine(w, line, i, marker) ==
  IF i > Len(line) \/ w.out_of_bounds THEN w
  ELSE WalkLine(WalkUnits(GrowForStep(w, line[i]), line[i].direction,
                          line[i].num_of_cells, marker),
                line, i + 1, marker)

(***************************************************************************)
(* HandleLines for Field: calculate_intersections                          *)
(***************************************************************************)
\* Variant: the cell contains the marker's bits instead of being equal to it.
IsIntersection_contains(v, marker) == BitOr(v, marker) = v

\* if self.cells[x][y] == marker
IsIntersection(v, marker) == v = marker

\* The Cells in the order of the two nested loops: x outer, y inner.
ScanOrder(cs) ==
  [k \in 1..(Width(cs) * Height(cs)) |->
     Cell((k - 1) \div Height(cs), (k - 1) % Height(cs))]

calculate_intersections(cs, marker) ==
  SelectSeq(ScanOrder(cs), LAMBDA c : IsIntersection(At(cs, c), marker))

(***************************************************************************)
(* HandleLines for Field:                                                  *)
(* calculate_minimum_steps_to_reach_any_intersection                       *)
(***************************************************************************)
RECURSIVE accumulated_marker_for_all_lines(_, _)
accumulated_marker_for_all_lines(list, i) ==
  IF i > Len(list) THEN 0
  ELSE BitOr(list[i].marker, accumulated_marker_for_all_lines(list, i + 1))

\* taken_steps for one intersection: a map without the key is skipped.
RECURSIVE taken_steps_at(_, _, _)
taken_steps_at(list, i, intersection) ==
  IF i > Len(list) THEN 0
  ELSE (IF intersection \in DOMAIN list[i].map THEN list[i].map[intersection] ELSE 0)
       + taken_steps_at(list, i + 1, intersection)

SeqMin(q) == CHOOSE m \in {q[i] : i \in 1..Len(q)} : \A i \in 1..Len(q) : m <= q[i]

\* The loop over the registered lines that panics in its first iteration.
PanicsPerRegisteredLine(list) == Len(list) > 0

calculate_minimum_steps_to_reach_any_intersection(list, cs, marker) ==
  IF accumulated_marker_for_all_lines(list, 1) # marker THEN Panicked
  ELSE IF PanicsPerRegisteredLine(list) THEN Panicked
  ELSE LET intersections == calculate_intersections(cs, marker)
           steps_to_reach_intersections ==
             [i \in 1..Len(intersections) |-> taken_steps_at(list, 1, intersections[i])]
       IN IF Len(steps_to_reach_intersections) = 0 THEN Panicked
          ELSE [outcome |-> "returned", intersections |-> <<>>,
                steps |-> SeqMin(steps_to_reach_intersections)]

Field == [cells |-> cells, center |-> center]

Last(op, arg, res) ==
  [op |-> op, arg |-> arg, width |-> Width(cells), height |-> Height(cells),
   center |-> center, outcome |-> res.outcome,
   intersections |-> res.intersections, steps |-> res.steps]

Fits(f) == Width(f.cells) <= MaxDim /\ Height(f.cells) <= MaxDim

FitsCells(f) == Width(f.cells) * Height(f.cells) <= MaxCells

Init ==
  \E size \in Sizes, fill_value \in FillValues, center_value \in CenterValues :
    /\ cells = NewCells(size, fill_value, center_value)
    /\ center = Cell(0, 0)
    /\ position_to_num_of_steps_list = <<>>
    /\ status = "ok"
    /\ args = [size |-> size, fill_value |-> fill_value, center_value |-> center_value]
    /\ history = <<>>
    /\ last = [op |-> "new", arg |-> size, width |-> size, height |-> size,
               center |-> Cell(0, 0), outcome |-> "returned",
               intersections |-> <<>>, steps |-> 0]

GrowHorizontally(t) ==
  LET f == grow_horizontally(Field, t) IN
  /\ status = "ok"
  /\ Fits(f)
  /\ FitsCells(f)
  /\ cells' = f.cells
  /\ center' = f.center
  /\ last' = Last("grow_horizontally", t, NoResult)
  /\ UNCHANGED <<position_to_num_of_steps_list, status, args, history>>

GrowVertically(t) ==
  LET f == grow_vertically(Field, t) IN
  /\ status = "ok"
  /\ Fits(f)
  /\ FitsCells(f)
  /\ cells' = f.cells
  /\ center' = f.center
  /\ last' = Last("grow_vertically", t, NoResult)
  /\ UNCHANGED <<position_to_num_of_steps_list, status, args, history>>

AddLine(line, marker) ==
  LET w == WalkLine(StartWalk(Field), line, 1, marker) IN
  /\ status = "ok"
  /\ ~marker_already_added(position_to_num_of_steps_list, marker)
  /\ Fits(w)
  /\ FitsCells(w)
  /\ cells' = w.cells
  /\ center' = w.center
  /\ IF w.out_of_bounds
     THEN /\ status' = "panicked"
          /\ last' = Last("add_line", marker, Panicked)
          /\ UNCHANGED <<position_to_num_of_steps_list, history>>
     ELSE /\ position_to_num_of_steps_list' =
               Append(position_to_num_of_steps_list,
                      [marker |-> marker, map |-> w.position_to_num_of_steps])
          /\ history' = Append(history,
               [recorded_at |-> w.recorded_at, first_reach |-> w.first_reach,
                revisited |-> w.revisited, center |-> w.center, line |-> line])
          /\ last' = Last("add_line", marker, NoResult)
          /\ UNCHANGED status
  /\ UNCHANGED args

AddLineTwice(marker) ==
  /\ status = "ok"
  /\ marker_already_added(position_to_num_of_steps_list, marker)
  /\ status' = "panicked"
  /\ last' = Last("add_line", marker, Panicked)
  /\ UNCHANGED <<cells, center, position_to_num_of_steps_list, args, history>>

CalculateIntersections(marker) ==
  /\ status = "ok"
  /\ last' = Last("calculate_intersections", marker,
                  [outcome |-> "returned",
                   intersections |-> calculate_intersections(cells, marker),
                   steps |-> 0])
  /\ UNCHANGED <<cells, center, position_to_num_of_steps_list, status, args, history>>

CalculateMinimumSteps(marker) ==
  LET r == calculate_minimum_steps_to_reach_any_intersection(
             position_to_num_of_steps_list, cells, marker) IN
  /\ status = "ok"
  /\ last' = Last("calculate_minimum_steps_to_reach_any_intersection", marker, r)
  /\ status' = IF r.outcome = "panicked" THEN "panicked" ELSE "ok"
  /\ UNCHANGED <<cells, center, position_to_num_of_steps_list, args, history>>

Next ==
  \/ \E line \in Lines, marker \in Markers : AddLine(line, marker)
  \/ \E marker \in Markers : AddLineTwice(marker)
  \/ \E marker \in IntersectionMasks : CalculateIntersections(marker)
  \/ \E marker \in StepMasks : CalculateMinimumSteps(marker)

Spec == Init /\ [][Next]_vars

(***************************************************************************)
(* The growth operations alone, over a wider range of targets.             *)
(***************************************************************************)
Grow(h, v) ==
  LET f == grow(Field, h, v) IN
  /\ status = "ok"
  /\ Fits(f)
  /\ FitsCells(f)
  /\ cells' = f.cells
  /\ center' = f.center
  /\ last' = Last("grow", <<h, v>>, NoResult)
  /\ UNCHANGED <<position_to_num_of_steps_list, status, args, history>>

NextGrow ==
  \/ \E t \in Targets : GrowHorizontally(t)
  \/ \E t \in Targets : GrowVertically(t)
  \/ \E h \in BothTargets, v \in BothTargets : Grow(h, -v)
  \/ \E line \in GrowLines, marker \in GrowMarkers : AddLine(line, marker)

SpecGrow == Init /\ [][NextGrow]_vars

(***************************************************************************)
(* Vocabulary of the properties.                                           *)
(***************************************************************************)
MinSteps == "calculate_minimum_steps_to_reach_any_intersection"

GridCells(cs) == {Cell(i, j) : i \in 0..(Width(cs) - 1), j \in 0..(Height(cs) - 1)}

Range(q) == {q[i] : i \in 1..Len(q)}

\* The logical position that the internal Cell c has under the current Origin.
Logical(c) == <<c.x - center.x, c.y - center.y>>

AccumulatedMarker == accumulated_marker_for_all_lines(position_to_num_of_steps_list, 1)

HoldersOf(mask) == {c \in GridCells(cells) : At(cells, c) = mask}

SumOfRecordedSteps(c) == taken_steps_at(position_to_num_of_steps_list, 1, c)

SetMin(S) == CHOOSE m \in S : \A n \in S : m <= n

LineA == <<Step("Right", 3)>>

LineB == <<Step("Up", 1), Step("Right", 1), Step("Down", 1)>>

ScenarioAB ==
  /\ args.size = 4
  /\ Len(history) = 2
  /\ history[1].line = LineA /\ position_to_num_of_steps_list[1].marker = 2
  /\ history[2].line = LineB /\ position_to_num_of_steps_list[2].marker = 4

\* C1: after two paths with distinct markers A and B, the minimum-steps query with
\* A|B returns the minimum over the intersection Cells of the summed recorded step
\* counts; in the scenario R3 (marker 2) / U1,R1,D1 (marker 4) on a size-4 grid the
\* Cell at logical (1,0) is an intersection with combined cost 5.
C1_MinimumOfSummedSteps ==
  /\ ( /\ last.op = MinSteps
       /\ Len(position_to_num_of_steps_list) = 2
       /\ position_to_num_of_steps_list[1].marker # position_to_num_of_steps_list[2].marker
       /\ last.arg = AccumulatedMarker
       /\ HoldersOf(last.arg) # {} )
     => /\ last.outcome = "returned"
        /\ last.steps = SetMin({SumOfRecordedSteps(c) : c \in HoldersOf(last.arg)})
  /\ (ScenarioAB /\ last.op = MinSteps /\ last.arg = 6)
     => LET c == get_cell(1, 0, center.x, center.y)
        IN /\ c \in Range(calculate_intersections(cells, 6))
           /\ SumOfRecordedSteps(c) = 5
           /\ last.outcome = "returned"

\* C2: the minimum-steps query fails fatally whenever the mask differs from the OR
\* of all registered markers, and does not fail when the mask equals that OR and
\* some Cell holds exactly the mask.
C2_FailsOnlyOnWrongMask ==
  last.op = MinSteps
  => /\ last.arg # AccumulatedMarker => last.outcome = "panicked"
     /\ (last.arg = AccumulatedMarker /\ HoldersOf(last.arg) # {})
        => last.outcome = "returned"

(***************************************************************************)
(* Growth: what a call to grow_horizontally / grow_vertically did, read    *)
(* from last (the field before the call) and the current field.            *)
(***************************************************************************)
Horizontal == last.op = "grow_horizontally"

Vertical == last.op = "grow_vertically"

SizeBefore == IF Horizontal THEN last.width ELSE last.height

SizeAfter == IF Horizontal THEN Width(cells) ELSE Height(cells)

OriginBefore == IF Horizontal THEN last.center.x ELSE last.center.y

OriginAfter == IF Horizontal THEN center.x ELSE center.y

OtherOriginUnchanged ==
  IF Horizontal THEN center.y = last.center.y ELSE center.x = last.center.x

CellsAdded == SizeAfter - SizeBefore

Max(a, b) == IF a >= b THEN a ELSE b

\* C3 (as stated): after a growth call with target t the size in that dimension
\* has not decreased and Origin + t is a valid index: 0 <= Origin + t < size.
C3_TargetIsValidIndex ==
  (Horizontal \/ Vertical)
  => /\ SizeAfter >= SizeBefore
     /\ 0 <= OriginAfter + last.arg
     /\ OriginAfter + last.arg < SizeAfter

\* C3 (amended): after a growth call with target t the size in that dimension has
\* not decreased and 0 <= Origin + t <= size; Origin + t is a valid index when t is
\* negative, and for t >= 0 every coordinate below t is a valid index.
C3_TargetWithinSize ==
  (Horizontal \/ Vertical)
  => /\ SizeAfter >= SizeBefore
     /\ 0 <= OriginAfter + last.arg
     /\ OriginAfter + last.arg <= SizeAfter
     /\ last.arg < 0 => OriginAfter + last.arg < SizeAfter
     /\ last.arg > 0 => OriginAfter + last.arg - 1 < SizeAfter

\* A positive growth that ends with Origin + t equal to the new size.
C3_Witness ==
  /\ Horizontal
  /\ last.arg > 0
  /\ CellsAdded > 0
  /\ OriginAfter + last.arg = SizeAfter

\* The amount strictly required for the target t: the cells missing on the left or
\* bottom of Origin for t < 0, the cells missing for the size to reach Origin + t
\* for t >= 0.
CellsRequired ==
  IF last.arg < 0 THEN Max(0, -(OriginBefore + last.arg))
  ELSE Max(0, OriginBefore + last.arg - SizeBefore)

OriginFollowsGrowth ==
  /\ last.arg < 0 => OriginAfter = OriginBefore + CellsAdded
  /\ last.arg >= 0 => OriginAfter = OriginBefore
  /\ OtherOriginUnchanged

LineL5 == <<Step("Left", 5)>>

\* add_line(["L5"]) on the grid as constructed.
IngestedL5 ==
  /\ last.op = "add_line"
  /\ last.outcome = "returned"
  /\ last.width = args.size /\ last.center = Cell(0, 0)
  /\ history[Len(history)].line = LineL5

L5GrowsLeft ==
  IngestedL5 => /\ Width(cells) - last.width >= MinimumBatch
                /\ center.x - last.center.x = Width(cells) - last.width

GrowthStep == last'.op \in {"grow_horizontally", "grow_vertically"}

Rectangular(cs) == \A i \in 1..Len(cs) : Len(cs[i]) = Len(cs[1])

\* The Cell that holds, after the step, the logical coordinate that c held before.
Moved(c) == Cell(c.x + center'.x - center.x, c.y + center'.y - center.y)

OldValuesKept ==
  \A c \in GridCells(cells) :
    /\ InGrid(cells', Moved(c))
    /\ At(cells', Moved(c)) = At(cells, c)

AddedCells == GridCells(cells') \ {Moved(c) : c \in GridCells(cells)}

\* C10: a growth call keeps the value at every logical coordinate that was
\* addressable before it, keeps the grid rectangular, and every cell it adds holds
\* the empty_value the grid was built with.
C10_GrowthFillsWithEmptyValue ==
  [][GrowthStep => /\ OldValuesKept
                   /\ Rectangular(cells')
                   /\ \A c \in AddedCells : At(cells', c) = args.fill_value]_vars

\* C4: every Cell stored as a key of a visitation map denotes, under the current
\* Origin, the logical position it was recorded for.
C4_StoredCellsStayValid ==
  \A i \in 1..Len(position_to_num_of_steps_list) :
    \A c \in DOMAIN position_to_num_of_steps_list[i].map :
      Logical(c) = history[i].recorded_at[c]

\* C7: when add_line has returned, for every logical position the path passed
\* more than once, the visitation map holds for that position's Cell the running
\* step total of the first pass.
C7_FirstReachIsKept ==
  (last.op = "add_line" /\ last.outcome = "returned")
  => LET i == Len(position_to_num_of_steps_list)
     IN \A p \in history[i].revisited :
          LET c == get_cell(p[1], p[2], center.x, center.y)
          IN /\ c \in DOMAIN position_to_num_of_steps_list[i].map
             /\ position_to_num_of_steps_list[i].map[c] = history[i].first_reach[p]

\* q lists its Cells with x ascending, and y ascending within equal x.
InScanOrder(q) ==
  \A i \in 1..(Len(q) - 1) :
    \/ q[i].x < q[i + 1].x
    \/ q[i].x = q[i + 1].x /\ q[i].y < q[i + 1].y

\* C5: calculate_intersections(mask) returns exactly the Cells of the grid whose
\* value equals mask, each once, x ascending then y ascending, and leaves the
\* grid, the Origin and the visitation maps unchanged.
C5_IntersectionsAreExact ==
  [][last'.op = "calculate_intersections"
     => /\ Range(last'.intersections) = HoldersOf(last'.arg)
        /\ InScanOrder(last'.intersections)
        /\ cells' = cells
        /\ center' = center
        /\ position_to_num_of_steps_list' = position_to_num_of_steps_list]_vars

\* A query with mask 6 that returned several Cells while other Cells hold a strict
\* subset (2 or 4) and a strict superset (7) of the mask's bits.
C5_Witness ==
  /\ last.op = "calculate_intersections"
  /\ last.arg = 6
  /\ Len(last.intersections) >= 2
  /\ HoldersOf(2) \cup HoldersOf(4) # {}
  /\ HoldersOf(7) # {}

\* Bitwise OR of the markers of the paths that visited the logical position p.
RECURSIVE VisitorsMarker(_, _)
VisitorsMarker(p, i) ==
  IF i > Len(history) THEN 0
  ELSE BitOr(IF p \in DOMAIN history[i].first_reach
             THEN position_to_num_of_steps_list[i].marker ELSE 0,
             VisitorsMarker(p, i + 1))

\* The value of the cell at logical position p before any path was ingested.
ValueBeforePaths(p) ==
  IF p = <<0, 0>> THEN args.center_value
  ELSE IF p[1] \in 0..(args.size - 1) /\ p[2] \in 0..(args.size - 1) THEN args.fill_value
  ELSE GrowFill

\* C6 (as stated): after add_line calls with distinct markers, a Cell (the origin
\* cell included) qualifies for calculate_intersections(mask) iff the markers of
\* the paths that visited it bitwise-OR to mask.
C6_QualifiesIffVisitorsOrToMask ==
  (last.op = "calculate_intersections" /\ Len(history) >= 1)
  => \A c \in GridCells(cells) :
       c \in Range(last.intersections) <=> VisitorsMarker(Logical(c), 1) = last.arg

\* C6 (amended): a Cell qualifies iff v | m = mask, where m is the OR of the
\* markers of the paths that visited it and v is the value the Cell had before any
\* path: center_value at the logical origin, empty_value elsewhere in the initial
\* square, 0 in the cells added by growth.
C6_QualifiesIffValueOrVisitorsIsMask ==
  (last.op = "calculate_intersections" /\ Len(history) >= 1)
  => \A c \in GridCells(cells) :
       c \in Range(last.intersections)
       <=> BitOr(ValueBeforePaths(Logical(c)), VisitorsMarker(Logical(c), 1)) = last.arg

\* Two paths both visited the logical origin and another common Cell; the query
\* with the OR of their markers returns that Cell and not the origin.
C6_Witness ==
  /\ last.op = "calculate_intersections"
  /\ Len(history) = 2
  /\ last.arg = AccumulatedMarker
  /\ <<0, 0>> \in DOMAIN history[1].first_reach
  /\ <<0, 0>> \in DOMAIN history[2].first_reach
  /\ last.intersections # <<>>
  /\ center \notin Range(last.intersections)

DistinctMarkers(list) ==
  \A i, j \in 1..Len(list) : list[i].marker = list[j].marker => i = j

\* C8: add_line with a marker that an earlier add_line registered fails fatally
\* without changing the grid, the Origin or any visitation map; every marker is
\* registered at most once.
C8_MarkerRegisteredOnce ==
  [][ /\ ( /\ last'.op = "add_line"
           /\ \E i \in 1..Len(position_to_num_of_steps_list) :
                position_to_num_of_steps_list[i].marker = last'.arg )
         => /\ status' = "panicked"
            /\ last'.outcome = "panicked"
            /\ cells' = cells
            /\ center' = center
            /\ position_to_num_of_steps_list' = position_to_num_of_steps_list
      /\ DistinctMarkers(position_to_num_of_steps_list') ]_vars

\* A second add_line with a registered marker has failed.
C8_Witness ==
  /\ last.op = "add_line"
  /\ last.outcome = "panicked"
  /\ status = "panicked"
  /\ \E i \in 1..Len(position_to_num_of_steps_list) :
       position_to_num_of_steps_list[i].marker = last.arg

\* C11: from every reachable grid state and for every line, the growth done before
\* each step run suffices: no unit step of add_line computes a Cell outside the
\* grid, so the walk ends without an index panic; an add_line that has failed
\* failed on its marker.
C11_WalkStaysInGrid ==
  /\ \A line \in Lines, marker \in Markers :
       ~WalkLine(StartWalk(Field), line, 1, marker).out_of_bounds
  /\ (last.op = "add_line" /\ last.outcome = "panicked")
     => marker_already_added(position_to_num_of_steps_list, last.arg)

\* add_line has returned from a line of several runs during which the grid grew
\* both upward and downward.
C11_Witness ==
  /\ last.op = "add_line"
  /\ last.outcome = "returned"
  /\ Len(history[Len(history)].line) >= 2
  /\ center.y > last.center.y
  /\ Height(cells) > last.height + (center.y - last.center.y)
====
